---- MODULE Spec2Model ----
(***************************************************************************)
(* Model of the xfs firmware extraction orchestrator.                      *)
(*                                                                         *)
(*   src/src/lib.rs           main: configuration checks, one scoped       *)
(*                            thread per extractor, join, device log,      *)
(*                            selection, rename to the canonical output    *)
(*                            path, copy of the selected rootfs            *)
(*   src/src/analysis/mod.rs  extract_and_process: the per-engine job      *)
(*   src/src/main.rs          mapping of the run's result to exit status   *)
(*   src/src/args.rs          the command-line arguments                   *)
(*                                                                         *)
(* The output directory is modelled as a map from archive index to file    *)
(* content: extract_and_process names the archive of candidate 0           *)
(* "rootfs.tar.gz" and the archive of candidate i > 0 "rootfs.<i>.tar.gz", *)
(* inside the output directory, for every engine.                          *)
(***************************************************************************)
EXTENDS Integers, Sequences, FiniteSets, TLC

\* ------------------------------------------------------------- bounds
MaxEngines == 2        \* longest --extractors list explored
MaxCandidates == 2     \* most candidates find_linux_filesystems returns
MaxNodes == 2          \* largest archive node count tar_fs returns
MaxLimit == 2          \* largest --primary-limit explored

\* ------------------------------------------------- program constants
\* args.rs:22 "Supported values are binwalk, binwalkv3, unblob"
KnownExtractors == {"binwalk", "binwalkv3", "unblob"}

\* lib.rs:162 the engine preferred on equal node counts
PreferredExtractor == "unblob"

\* an identifier get_extractor does not know
UnknownExtractor == "bogus"

\* lib.rs:91-95: the list used when --extractors is absent
AllExtractorNames == <<"binwalk", "binwalkv3", "unblob">>

\* args.rs:35: default_value_t of --primary-limit
DefaultPrimaryLimit == 1

\* --------------------------------------------------------- the files
\* analysis/mod.rs:174-178: the path of the archive of candidate i.
\* Index 0 is output_dir/rootfs.tar.gz, index i > 0 output_dir/rootfs.i.tar.gz.
TarPath(i) == i

\* lib.rs:52: output_dir.join("rootfs.tar.gz")
SelectedOutputPath == TarPath(0)

Paths == 0 .. (MaxCandidates - 1)

NoFile == [kind |-> "none", job |-> 0, index |-> 0]
OldFile == [kind |-> "old", job |-> 0, index |-> 0]
Mixed == [kind |-> "mixed", job |-> 0, index |-> 0]
Partial(j, i) == [kind |-> "partial", job |-> j, index |-> i]
Full(j, i) == [kind |-> "full", job |-> j, index |-> i]

\* ------------------------------------------------- the device paths
\* A path is the sequence of its bytes. ValidBytes are bytes of well-formed
\* UTF-8 text; to_string_lossy puts ReplacementChar for every other byte.
ValidBytes == {1, 2}

ReplacementChar == 0

\* The firmware-tree paths of the device files a candidate may hold: a path,
\* a path it is a proper prefix of, and a path that differs in a byte.
DevicePaths == {<<1>>, <<1, 2>>, <<2>>}

VARIABLES
    args,        \* the Args of the run (args.rs)
    files,       \* output directory: archive path -> content
    extractDir,  \* does output_dir/xfs-extract exist
    mpc,         \* position of lib.rs main
    nextSpawn,   \* position of the spawn loop in the extractor list
    scopeErr,    \* the error the scope closure returned, if any
    jobs,        \* one record per spawned thread
    results,     \* Mutex<Vec<ExtractionResult>>
    outcome,     \* what main returned
    removedDevices,  \* Mutex<HashSet<PathBuf>>, used when --log-devices
    devicesLog,  \* the lines of output_dir/devices.log, <<>> while not written
    dirs,        \* the extraction directories of this run that exist
    rootfsCopy   \* output_dir/rootfs: what the copy of --copy-rootfs left

vars == <<args, files, extractDir, mpc, nextSpawn, scopeErr, jobs, results, outcome,
          removedDevices, devicesLog, dirs, rootfsCopy>>

\* The threads of a run: one per position of the extractor list.
JobIds == DOMAIN jobs

\* output_dir/rootfs before any copy.
NoCopy == [status |-> "none", job |-> 0]

NoOutcome == [kind |-> "pending", extractor |-> "", error |-> ""]

\* A thread's locals: its position, the number of candidates the identifier
\* returned (rootfs_choices.len()), the loop index i, the node count of the
\* archive being recorded, its hash, and the error it returned.
IdleJob == [pc |-> "idle", n |-> 0, i |-> 0, count |-> 0, hash |-> <<>>, err |-> ""]

\* The lists an --extractors argument can be split into (lib.rs:87-95).
ExtractorLists ==
    UNION {[1 .. n -> KnownExtractors \cup {UnknownExtractor}] : n \in 1 .. MaxEngines}

Init ==
    /\ args \in [firmware : {"file", "dir", "missing"},
                 force : BOOLEAN,
                 extractors : ExtractorLists,
                 primary_limit : 0 .. MaxLimit,
                 log_devices : BOOLEAN,
                 no_scratch : BOOLEAN,
                 copy_rootfs : BOOLEAN]
    /\ files \in {[p \in Paths |-> IF p = SelectedOutputPath THEN c ELSE NoFile] :
                     c \in {NoFile, OldFile}}
    /\ extractDir \in BOOLEAN
    /\ mpc = "start"
    /\ nextSpawn = 1
    /\ scopeErr = ""
    /\ jobs = [j \in 1 .. Len(args.extractors) |-> IdleJob]
    /\ results = <<>>
    /\ outcome = NoOutcome
    /\ removedDevices = {}
    /\ devicesLog = <<>>
    /\ dirs = {}
    /\ rootfsCopy = NoCopy

\* The run of the default command line: the firmware file alone, an output
\* directory with no earlier output in it.
InitDefault ==
    /\ args = [firmware |-> "file",
               force |-> FALSE,
               extractors |-> AllExtractorNames,
               primary_limit |-> DefaultPrimaryLimit,
               log_devices |-> FALSE,
               no_scratch |-> FALSE,
               copy_rootfs |-> FALSE]
    /\ files = [p \in Paths |-> NoFile]
    /\ extractDir = FALSE
    /\ mpc = "start"
    /\ nextSpawn = 1
    /\ scopeErr = ""
    /\ jobs = [j \in 1 .. Len(args.extractors) |-> IdleJob]
    /\ results = <<>>
    /\ outcome = NoOutcome
    /\ removedDevices = {}
    /\ devicesLog = <<>>
    /\ dirs = {}
    /\ rootfsCopy = NoCopy

\* ----------------------------------------------------- lib.rs main
\* lib.rs:28-77: the firmware and output checks, and --force's removals.
\* Validate as it would be if --force removed the archive alone and left the
\* scratch tree of the earlier run in place.
ValidateKeepsScratch ==
    /\ mpc = "start"
    /\ IF args.firmware # "file"
       THEN /\ mpc' = "error"
            /\ outcome' = [kind |-> "Err", extractor |-> "",
                           error |-> IF args.firmware = "dir"
                                     THEN "FirmwareNotAFile"
                                     ELSE "FirmwareDoesNotExist"]
            /\ UNCHANGED <<files, extractDir>>
       ELSE IF (files[SelectedOutputPath] # NoFile \/ extractDir) /\ ~args.force
       THEN /\ mpc' = "error"
            /\ outcome' = [kind |-> "Err", extractor |-> "", error |-> "OutputExists"]
            /\ UNCHANGED <<files, extractDir>>
       ELSE /\ mpc' = "spawn"
            /\ outcome' = outcome
            /\ files' = IF args.force
                        THEN [files EXCEPT ![SelectedOutputPath] = NoFile]
                        ELSE files
            /\ UNCHANGED extractDir
    /\ UNCHANGED <<args, rootfsCopy, dirs, removedDevices, devicesLog, nextSpawn, scopeErr, jobs, results>>

Validate ==
    /\ mpc = "start"
    /\ IF args.firmware # "file"
       THEN /\ mpc' = "error"
            /\ outcome' = [kind |-> "Err", extractor |-> "",
                           error |-> IF args.firmware = "dir"
                                     THEN "FirmwareNotAFile"
                                     ELSE "FirmwareDoesNotExist"]
            /\ UNCHANGED <<files, extractDir>>
       ELSE IF (files[SelectedOutputPath] # NoFile \/ extractDir) /\ ~args.force
       THEN /\ mpc' = "error"
            /\ outcome' = [kind |-> "Err", extractor |-> "", error |-> "OutputExists"]
            /\ UNCHANGED <<files, extractDir>>
       ELSE /\ mpc' = "spawn"
            /\ outcome' = outcome
            /\ IF args.force
               THEN /\ files' = [files EXCEPT ![SelectedOutputPath] = NoFile]
                    /\ extractDir' = FALSE
               ELSE UNCHANGED <<files, extractDir>>
    /\ UNCHANGED <<args, rootfsCopy, dirs, removedDevices, devicesLog, nextSpawn, scopeErr, jobs, results>>

\* extractors::get_extractor (called at lib.rs:104): Some for a known name,
\* None otherwise.
get_extractor(name) == name \in KnownExtractors

\* lib.rs:103-127: one iteration of the spawn loop.
Spawn ==
    /\ mpc = "spawn"
    /\ nextSpawn <= Len(args.extractors)
    /\ IF get_extractor(args.extractors[nextSpawn])
       THEN /\ jobs' = [jobs EXCEPT ![nextSpawn].pc = "extract"]
            /\ nextSpawn' = nextSpawn + 1
            /\ UNCHANGED <<mpc, scopeErr>>
       ELSE /\ scopeErr' = "InvalidExtractor"
            /\ mpc' = "join"
            /\ UNCHANGED <<jobs, nextSpawn>>
    /\ UNCHANGED <<args, rootfsCopy, dirs, removedDevices, devicesLog, files, extractDir, results, outcome>>

\* lib.rs:129: the closure returns Ok(()) after the last extractor.
SpawnDone ==
    /\ mpc = "spawn"
    /\ nextSpawn > Len(args.extractors)
    /\ mpc' = "join"
    /\ UNCHANGED <<args, rootfsCopy, dirs, removedDevices, devicesLog, files, extractDir, nextSpawn, scopeErr, jobs, results, outcome>>

\* lib.rs:102-130: a thread the scope need not wait for: never spawned, or
\* returned, or panicked.
\* Terminal as it would be for a scope that also lets go of a thread that has
\* its result ready to append.
TerminalOrReady(j) == jobs[j].pc \in {"idle", "ok", "err", "panic", "push"}

Terminal(j) == jobs[j].pc \in {"idle", "ok", "err", "panic"}

\* lib.rs:102-130: thread::scope returns once every spawned thread has ended;
\* it panics if one of them panicked, and `?` returns the closure's error.
JoinScope ==
    /\ mpc = "join"
    /\ \A j \in JobIds : Terminal(j)
    /\ IF \E j \in JobIds : jobs[j].pc = "panic"
       THEN /\ mpc' = "panic"
            /\ outcome' = outcome
       ELSE IF scopeErr # ""
       THEN /\ mpc' = "error"
            /\ outcome' = [kind |-> "Err", extractor |-> "", error |-> scopeErr]
       ELSE /\ mpc' = "log"
            /\ outcome' = outcome
    /\ UNCHANGED <<args, rootfsCopy, dirs, removedDevices, devicesLog, files, extractDir, nextSpawn, scopeErr, jobs, results>>

\* ------------------------------- analysis/mod.rs extract_and_process
\* analysis/mod.rs:147-161 and 199-201: the head of the candidate loop. The
\* loop body runs for candidate i (0-based) while i is below the number of
\* candidates and below primary_limit; otherwise the job returns Ok(()).
\* LoopPc as it would be with a cancellation flag shared by the jobs: a
\* failed sibling ends the loop.
LoopPcCancelled(n, i) ==
    IF i < n /\ i < args.primary_limit /\ ~\E k \in DOMAIN jobs : jobs[k].pc = "err"
    THEN "tar" ELSE "ok"

\* LoopPc as it would be with the cap compared by <=.
LoopPcInclusive(n, i) ==
    IF i < n /\ i <= args.primary_limit THEN "tar" ELSE "ok"

LoopPc(n, i) ==
    IF i < n /\ i < args.primary_limit THEN "tar" ELSE "ok"

\* analysis/mod.rs:63: extract_dir_base.join(extractor_name)
ExtractDirOf(j) == <<"xfs-extract", args.extractors[j]>>

\* analysis/mod.rs:74-76: the directory TempDir::with_prefix_in creates for
\* job j, under a name no other directory has.
TempDirOf(j) == <<"tmp", args.extractors[j], j>>

\* analysis/mod.rs:79-83: the directory the Extractor fills and the candidates
\* are found in.
ActualExtractDir(j) == IF args.no_scratch THEN TempDirOf(j) ELSE ExtractDirOf(j)

\* analysis/mod.rs:71-77 and 199: the directories left when job j moves to
\* pc: a TempDir is deleted when the job returns or unwinds.
Release(ds, j, pc) ==
    IF pc \in {"ok", "err", "panic"} THEN ds \ {TempDirOf(j)} ELSE ds

\* analysis/mod.rs:60-117: the job creates output_dir/xfs-extract/<engine>
\* (TempDirFail if it cannot), with --no-scratch a TempDir (TempDirFail if it
\* cannot), and calls the Extractor, whose Err, a timeout included, is
\* ExtractFail.
Extract(j) ==
    /\ jobs[j].pc = "extract"
    /\ \E r \in {"TempDirFail", "ExtractFail", ""} :
         /\ jobs' = [jobs EXCEPT ![j].pc = IF r = "" THEN "identify" ELSE "err",
                                 ![j].err = r]
         /\ \E made \in IF r # "TempDirFail" THEN {TRUE}
                         ELSE IF args.no_scratch THEN BOOLEAN ELSE {FALSE} :
              /\ extractDir' = (extractDir \/ made)
              /\ dirs' = (IF made THEN dirs \cup {ExtractDirOf(j)} ELSE dirs)
                            \cup (IF r = "" THEN {ActualExtractDir(j)} ELSE {})
    /\ UNCHANGED <<args, rootfsCopy, removedDevices, devicesLog, files, mpc, nextSpawn, scopeErr, results, outcome>>

\* analysis/mod.rs:130-145: the Rootfs Identifier returns n candidates; none
\* is FailToFind.
Identify(j) ==
    /\ jobs[j].pc = "identify"
    /\ \E n \in 0 .. MaxCandidates :
         jobs' = [jobs EXCEPT
                    ![j].n = n,
                    ![j].i = 0,
                    ![j].pc = IF n = 0 THEN "err" ELSE LoopPc(n, 0),
                    ![j].err = IF n = 0 THEN "FailToFind" ELSE ""]
    /\ dirs' = Release(dirs, j, jobs'[j].pc)
    /\ UNCHANGED <<args, rootfsCopy, removedDevices, devicesLog, files, extractDir, mpc, nextSpawn, scopeErr, results, outcome>>

\* analysis/mod.rs:174-183: tar_fs creates (or truncates) the archive file at
\* tar_path, or fails before that; the unwrap turns the failure into a panic.
TarOpen(j) ==
    /\ jobs[j].pc = "tar"
    /\ \/ /\ files' = [files EXCEPT ![TarPath(jobs[j].i)] = Partial(j, jobs[j].i)]
          /\ jobs' = [jobs EXCEPT ![j].pc = "write"]
       \/ /\ jobs' = [jobs EXCEPT ![j].pc = "panic", ![j].err = "tar_fs"]
          /\ UNCHANGED files
    /\ dirs' = Release(dirs, j, jobs'[j].pc)
    /\ UNCHANGED <<args, rootfsCopy, removedDevices, devicesLog, extractDir, mpc, nextSpawn, scopeErr, results, outcome>>

\* The content of an archive file when job j has written candidate i to it:
\* j's archive if nobody else touched the file in the meantime, and otherwise
\* either j's archive or an interleaving of the writers' bytes.
Written(j, i, cur) ==
    IF cur = Partial(j, i) THEN {Full(j, i)} ELSE {Full(j, i), Mixed}

\* archive::tar_fs with removed_devices: the device files it leaves out of an
\* archive are inserted into the shared set, when there is one (lib.rs:99-100:
\* only with --log-devices).
OmittedDevices == IF args.log_devices THEN SUBSET DevicePaths ELSE {{}}

\* analysis/mod.rs:183: tar_fs writes the archive and returns its node count,
\* or fails half way and leaves what it wrote; the unwrap panics on failure.
TarWrite(j) ==
    /\ jobs[j].pc = "write"
    /\ \/ /\ \E c \in Written(j, jobs[j].i, files[TarPath(jobs[j].i)]) :
               files' = [files EXCEPT ![TarPath(jobs[j].i)] = c]
          /\ \E count \in 1 .. MaxNodes :
               jobs' = [jobs EXCEPT ![j].pc = "hash", ![j].count = count]
          /\ \E devs \in OmittedDevices :
               removedDevices' = removedDevices \cup devs
       \/ /\ jobs' = [jobs EXCEPT ![j].pc = "panic", ![j].err = "tar_fs"]
          /\ UNCHANGED <<files, removedDevices>>
    /\ dirs' = Release(dirs, j, jobs'[j].pc)
    /\ UNCHANGED <<args, rootfsCopy, devicesLog, extractDir, mpc, nextSpawn, scopeErr, results, outcome>>

\* analysis/mod.rs:204-212: the SHA-1 digest of a file's bytes, as a value
\* that is the same for two reads exactly when the two contents are the same.
sha1_file(content) == <<"sha1", content.kind, content.job, content.index>>

\* analysis/mod.rs:184: sha1_file reads whatever is at tar_path at that
\* moment, which needs the file to exist; a read error panics through the
\* unwrap.
Hash(j) ==
    /\ jobs[j].pc = "hash"
    /\ \/ /\ files[TarPath(jobs[j].i)] # NoFile
          /\ jobs' = [jobs EXCEPT ![j].pc = "push",
                                  ![j].hash = sha1_file(files[TarPath(jobs[j].i)])]
       \/ jobs' = [jobs EXCEPT ![j].pc = "panic", ![j].err = "sha1_file"]
    /\ dirs' = Release(dirs, j, jobs'[j].pc)
    /\ UNCHANGED <<args, rootfsCopy, removedDevices, devicesLog, files, extractDir, mpc, nextSpawn, scopeErr, results, outcome>>

\* analysis/mod.rs:186-196: the ExtractionResult of candidate i of job j, with
\* the fields main reads; rootfs_path names the candidate by its job and rank.
ExtractionResult(j) ==
    [extractor |-> args.extractors[j],
     index |-> jobs[j].i,
     file_node_count |-> jobs[j].count,
     archive_hash |-> jobs[j].hash,
     path |-> TarPath(jobs[j].i),
     rootfs_path |-> <<j, jobs[j].i>>]

\* analysis/mod.rs:186-201: the push under the lock, then the next iteration.
Push(j) ==
    /\ jobs[j].pc = "push"
    /\ results' = Append(results, ExtractionResult(j))
    /\ jobs' = [jobs EXCEPT ![j].i = jobs[j].i + 1,
                            ![j].count = 0,
                            ![j].hash = <<>>,
                            ![j].pc = LoopPc(jobs[j].n, jobs[j].i + 1)]
    /\ dirs' = Release(dirs, j, jobs'[j].pc)
    /\ UNCHANGED <<args, rootfsCopy, removedDevices, devicesLog, files, extractDir, mpc, nextSpawn, scopeErr, outcome>>

\* ----------------------------------------------- lib.rs device log
\* lib.rs:137: path.to_string_lossy().into_owned()
to_string_lossy(path) ==
    [k \in DOMAIN path |-> IF path[k] \in ValidBytes THEN path[k] ELSE ReplacementChar]

\* The order of String: byte by byte, a proper prefix first.
\* StrLess as it would be for an order by length first.
StrLessByLength(a, b) ==
    \/ Len(a) < Len(b)
    \/ /\ Len(a) = Len(b)
       /\ \E k \in 1 .. Len(a) :
            a[k] < b[k] /\ \A m \in 1 .. (k - 1) : a[m] = b[m]

RECURSIVE StrLess(_, _)
StrLess(a, b) ==
    IF b = <<>> THEN FALSE
    ELSE IF a = <<>> THEN TRUE
    ELSE IF Head(a) # Head(b) THEN Head(a) < Head(b)
    ELSE StrLess(Tail(a), Tail(b))

\* lib.rs:133-140: the strings of the set's paths, collected into a Vec and
\* sorted; strs is the Vec's elements with their multiplicities, as a
\* function from string to count.
RECURSIVE SortedLines(_)
SortedLines(strs) ==
    IF \A x \in DOMAIN strs : strs[x] = 0 THEN <<>>
    ELSE LET least == CHOOSE x \in DOMAIN strs :
                        /\ strs[x] > 0
                        /\ \A y \in DOMAIN strs : strs[y] > 0 => (x = y \/ StrLess(x, y))
         IN <<least>> \o SortedLines([strs EXCEPT ![least] = strs[least] - 1])

\* lib.rs:133-138: the Vec of strings made from the set of paths.
DeviceStrings(paths) ==
    [x \in {to_string_lossy(q) : q \in paths} |->
        Cardinality({q \in paths : to_string_lossy(q) = x})]

\* lib.rs:132-152: with --log-devices, the sorted paths are written to
\* output_dir/devices.log, one per line, unless there is none.
WriteDeviceLog ==
    /\ mpc = "log"
    /\ devicesLog' = IF args.log_devices /\ removedDevices # {}
                     THEN SortedLines(DeviceStrings(removedDevices))
                     ELSE devicesLog
    /\ mpc' = "select"
    /\ UNCHANGED <<args, rootfsCopy, dirs, removedDevices, files, extractDir, nextSpawn, scopeErr, jobs,
                   results, outcome>>

\* ------------------------------------------------ lib.rs selection
\* lib.rs:155: results.iter().filter(|res| res.index == 0)
\* BestResults as it would be without the filter.
BestResultsUnfiltered(rs) == rs

BestResults(rs) == SelectSeq(rs, LAMBDA r : r.index = 0)

\* lib.rs:162: the sort key (file_node_count, extractor == "unblob"), compared
\* as a tuple: a < b.
\* KeyLess as it would be without the Reverse: the smaller key ranks first.
KeyLessAscending(a, b) ==
    \/ a.file_node_count > b.file_node_count
    \/ /\ a.file_node_count = b.file_node_count
       /\ a.extractor = PreferredExtractor
       /\ b.extractor # PreferredExtractor

\* KeyLess as it would be with the node count as the whole key.
KeyLessCountOnly(a, b) == a.file_node_count < b.file_node_count

KeyLess(a, b) ==
    \/ a.file_node_count < b.file_node_count
    \/ /\ a.file_node_count = b.file_node_count
       /\ a.extractor # PreferredExtractor
       /\ b.extractor = PreferredExtractor

\* One insertion of a stable sort by Reverse(key): e goes after every element
\* whose key is not below e's.
RECURSIVE InsertSorted(_, _)
InsertSorted(sorted, e) ==
    IF sorted = <<>> THEN <<e>>
    ELSE IF KeyLess(Head(sorted), e) THEN <<e>> \o sorted
    ELSE <<Head(sorted)>> \o InsertSorted(Tail(sorted), e)

\* lib.rs:162: best_results.sort_by_key(|res| Reverse(key)), a stable sort.
RECURSIVE SortByKey(_)
SortByKey(rs) ==
    IF rs = <<>> THEN <<>>
    ELSE InsertSorted(SortByKey(SubSeq(rs, 1, Len(rs) - 1)), rs[Len(rs)])

\* lib.rs:157-167: the ranked primary results; the first is the selection.
Ranked(rs) ==
    IF Len(BestResults(rs)) <= 1 THEN BestResults(rs) ELSE SortByKey(BestResults(rs))

\* lib.rs:169: fs::rename(from, to); renaming a path to itself changes nothing.
\* Rename as a copy followed by the removal of the source, with no test for
\* the two paths being the same file.
RenameCopyRemove(fs, from, to) ==
    [p \in DOMAIN fs |-> IF p = from THEN NoFile ELSE IF p = to THEN fs[from] ELSE fs[p]]

Rename(fs, from, to) ==
    IF from = to THEN fs
    ELSE [fs EXCEPT ![to] = fs[from], ![from] = NoFile]

\* lib.rs:154-169 and 274: selection, the rename and the returned value.
Select ==
    /\ mpc = "select"
    /\ LET best == Ranked(results) IN
       IF best = <<>>
       THEN /\ outcome' = [kind |-> "None", extractor |-> "", error |-> ""]
            /\ mpc' = "done"
            /\ UNCHANGED files
       ELSE IF files[best[1].path] = NoFile
       THEN /\ mpc' = "panic"
            /\ UNCHANGED <<outcome, files>>
       ELSE /\ outcome' = [kind |-> IF Len(best) = 1 THEN "Only" ELSE "Best",
                           extractor |-> best[1].extractor, error |-> ""]
            /\ files' = Rename(files, best[1].path, SelectedOutputPath)
            /\ mpc' = "copy"
    /\ UNCHANGED <<args, rootfsCopy, dirs, removedDevices, devicesLog, extractDir, nextSpawn, scopeErr, jobs, results>>

\* lib.rs:209: best_result.rootfs_path, a directory of the tree the selected
\* result's job extracted into.
SourcePath(rs) == ActualExtractDir(Ranked(rs)[1].rootfs_path[1])

\* CopyRootfs as it would be if a failed copy were returned as the run's
\* error.
CopyRootfsFatal ==
    /\ mpc = "copy"
    /\ IF ~args.copy_rootfs
       THEN /\ mpc' = "done"
            /\ UNCHANGED <<rootfsCopy, outcome>>
       ELSE \E copied \in IF SourcePath(results) \in dirs THEN BOOLEAN ELSE {FALSE} :
              /\ rootfsCopy' = [status |-> IF copied THEN "copied" ELSE "failed",
                                job |-> Ranked(results)[1].rootfs_path[1]]
              /\ mpc' = IF copied THEN "done" ELSE "error"
              /\ outcome' = IF copied THEN outcome
                            ELSE [kind |-> "Err", extractor |-> "", error |-> "IoError"]
    /\ UNCHANGED <<args, files, extractDir, nextSpawn, scopeErr, jobs, results,
                   removedDevices, devicesLog, dirs>>

\* lib.rs:183-272: with --copy-rootfs, the selected result's source directory
\* is copied to output_dir/rootfs, by cp in a container and entry by entry
\* otherwise; either way fails when the source is gone, and any step of it
\* may fail. The error is printed as a warning. lib.rs:274 returns the result.
CopyRootfs ==
    /\ mpc = "copy"
    /\ IF ~args.copy_rootfs
       THEN UNCHANGED rootfsCopy
       ELSE \E copied \in IF SourcePath(results) \in dirs THEN BOOLEAN ELSE {FALSE} :
              rootfsCopy' = [status |-> IF copied THEN "copied" ELSE "failed",
                             job |-> Ranked(results)[1].rootfs_path[1]]
    /\ mpc' = "done"
    /\ UNCHANGED <<args, files, extractDir, nextSpawn, scopeErr, jobs, results, outcome,
                   removedDevices, devicesLog, dirs>>

\* main.rs:17-67: the exit status of the process; a panic exits with 101.
ExitStatus ==
    CASE mpc = "panic" -> 101
      [] mpc = "error" -> 1
      [] mpc = "done" /\ outcome.kind = "None" -> 2
      [] mpc = "done" /\ outcome.kind # "None" -> 0
      [] OTHER -> -1

Next ==
    \/ Validate
    \/ Spawn
    \/ SpawnDone
    \/ JoinScope
    \/ WriteDeviceLog
    \/ Select
    \/ CopyRootfs
    \/ \E j \in JobIds : Extract(j)
    \/ \E j \in JobIds : Identify(j)
    \/ \E j \in JobIds : TarOpen(j)
    \/ \E j \in JobIds : TarWrite(j)
    \/ \E j \in JobIds : Hash(j)
    \/ \E j \in JobIds : Push(j)

Spec == Init /\ [][Next]_vars

\* The runs of a single configured engine, over every configuration.
InitSingle == Init /\ Len(args.extractors) = 1

SpecSingle == InitSingle /\ [][Next]_vars

\* The runs of two configured engines that pass the configuration checks,
\* with the primary cap at 0 or at its default.
InitPair ==
    /\ Init
    /\ args.firmware = "file"
    /\ ~args.force
    /\ files[SelectedOutputPath] = NoFile
    /\ ~extractDir
    /\ args.extractors \in [1 .. 2 -> KnownExtractors]
    /\ args.primary_limit \in {0, DefaultPrimaryLimit}
    /\ ~args.log_devices
    /\ ~args.no_scratch
    /\ ~args.copy_rootfs

SpecPair == InitPair /\ [][Next]_vars

\* The runs of two different engines with --log-devices.
InitDevices ==
    /\ Init
    /\ args.firmware = "file"
    /\ ~args.force
    /\ files[SelectedOutputPath] = NoFile
    /\ ~extractDir
    /\ args.extractors = <<"binwalk", PreferredExtractor>>
    /\ args.primary_limit = DefaultPrimaryLimit
    /\ args.log_devices
    /\ ~args.no_scratch
    /\ ~args.copy_rootfs

SpecDevices == InitDevices /\ [][Next]_vars

SpecDefault == InitDefault /\ [][Next]_vars

\* The runs of every --extractors list, unknown names included, that pass the
\* firmware and output checks, with the other options at their defaults.
InitLists ==
    /\ Init
    /\ args.firmware = "file"
    /\ ~args.force
    /\ files[SelectedOutputPath] = NoFile
    /\ ~extractDir
    /\ args.primary_limit = DefaultPrimaryLimit
    /\ ~args.log_devices
    /\ ~args.no_scratch
    /\ ~args.copy_rootfs

SpecLists == InitLists /\ [][Next]_vars

\* The runs of two configured engines with --copy-rootfs, with and without
\* --no-scratch.
InitCopy ==
    /\ Init
    /\ args.firmware = "file"
    /\ ~args.force
    /\ files[SelectedOutputPath] = NoFile
    /\ ~extractDir
    /\ args.extractors \in [1 .. 2 -> KnownExtractors]
    /\ args.primary_limit = DefaultPrimaryLimit
    /\ ~args.log_devices
    /\ args.copy_rootfs

SpecCopy == InitCopy /\ [][Next]_vars

\* The runs of two different engines with the primary cap at 0, at its
\* default and one above it.
InitCap ==
    /\ Init
    /\ args.firmware = "file"
    /\ ~args.force
    /\ files[SelectedOutputPath] = NoFile
    /\ ~extractDir
    /\ args.extractors = <<"binwalk", PreferredExtractor>>
    /\ args.primary_limit \in {0, DefaultPrimaryLimit, DefaultPrimaryLimit + 1}
    /\ ~args.log_devices
    /\ ~args.no_scratch
    /\ ~args.copy_rootfs

SpecCap == InitCap /\ [][Next]_vars

\* ================================================================ claims
Primaries == BestResults(results)

Ended == mpc \in {"done", "error", "panic"}

\* The job that produced result r: the owner of the candidate it archived.
JobOf(r) == r.rootfs_path[1]

MaxCount(rs) ==
    CHOOSE m \in {rs[k].file_node_count : k \in DOMAIN rs} :
        \A k \in DOMAIN rs : rs[k].file_node_count <= m

\* C1: when exactly two primary results with different node counts have been
\* appended, the run reports Best for the engine with the higher node count,
\* in whichever order the two jobs appended.
C1_HigherNodeCountWins ==
    (mpc = "done" /\ Len(Primaries) = 2
        /\ Primaries[1].file_node_count # Primaries[2].file_node_count)
    => /\ outcome.kind = "Best"
       /\ \E k \in 1 .. 2 :
            /\ outcome.extractor = Primaries[k].extractor
            /\ Primaries[k].file_node_count > Primaries[3 - k].file_node_count

\* C1 witness: the engine with the higher count appended second and won.
C1_Witness ==
    /\ mpc = "done"
    /\ Len(Primaries) = 2
    /\ Primaries[1].extractor # Primaries[2].extractor
    /\ Primaries[1].file_node_count < Primaries[2].file_node_count
    /\ outcome = [kind |-> "Best", extractor |-> Primaries[2].extractor, error |-> ""]

\* C2: when the run ends with a selected engine, the file at the canonical
\* output path is the archive the selected result's job built from its
\* primary candidate.
C2_CanonicalIsSelectedArchive ==
    (mpc = "done" /\ outcome.kind \in {"Only", "Best"})
    => files[SelectedOutputPath] = Full(JobOf(Ranked(results)[1]), 0)

\* C3: a run with a valid configuration in which no job appended a primary
\* result ends with outcome None, no file at the canonical output path and a
\* failure exit status.
C3_NoPrimaryMeansNone ==
    (mpc \in {"done", "panic"} /\ scopeErr = "" /\ Primaries = <<>>)
    => /\ outcome.kind = "None"
       /\ files[SelectedOutputPath] = NoFile
       /\ ExitStatus # 0

HasPrimary(j) ==
    \E k \in DOMAIN results : results[k].index = 0 /\ JobOf(results[k]) = j

\* C5 as stated: when selection runs, every engine whose extraction succeeded
\* and yielded a candidate has its primary result in the result set.
C5_AsStated ==
    (mpc \in {"select", "done"})
    => \A j \in JobIds : jobs[j].n >= 1 => HasPrimary(j)

\* C5 (amended): with a primary cap of at least 1, when selection runs every
\* job has run to its end and every engine whose extraction succeeded and
\* yielded a candidate has its primary result in the result set, whatever
\* the other engines' outcomes.
C5_FailureDoesNotStopSiblings ==
    (mpc \in {"select", "done"} /\ args.primary_limit >= 1)
    => \A j \in JobIds :
         /\ jobs[j].pc \in {"ok", "err"}
         /\ jobs[j].n >= 1 => HasPrimary(j)

\* C5 witness: selection runs after the first job ended in ExtractFail and
\* the second job appended its primary result and returned.
C5_Witness ==
    /\ mpc = "select"
    /\ Len(args.extractors) = 2
    /\ jobs[1].pc = "err"
    /\ jobs[1].err = "ExtractFail"
    /\ jobs[2].pc = "ok"
    /\ HasPrimary(2)

\* C6: a run that returns a configuration error has started no job and
\* written no archive.
C6_ConfigErrorBeforeAnyJob ==
    (mpc = "error")
    => /\ \A j \in JobIds : jobs[j].pc = "idle"
       /\ \A p \in Paths : files[p] \in {NoFile, OldFile}

\* C7: while a job is still running, no job has written the canonical output
\* path, and no job is writing or about to read (hash) a file at that path.
C7_CanonicalWrittenOnlyByRename ==
    (\E j \in JobIds : ~Terminal(j))
    => /\ files[SelectedOutputPath] \in {NoFile, OldFile}
       /\ \A j \in JobIds :
            jobs[j].pc \in {"write", "hash"} => TarPath(jobs[j].i) # SelectedOutputPath

\* C8: when more than one primary result exists, after the run the archive of
\* every non-selected primary result is at its recorded path, which is not
\* the canonical path, with the content its job wrote.
C8_NonSelectedArchivesRetained ==
    (mpc = "done" /\ Len(Primaries) > 1)
    => \A k \in 2 .. Len(Primaries) :
         LET r == Ranked(results)[k] IN
         /\ r.path # SelectedOutputPath
         /\ files[r.path] = Full(JobOf(r), 0)

\* C9: when more than one primary result exists, the reported engine has a
\* primary result of the maximum node count, and if the preferred engine has
\* a primary result of the maximum node count, the preferred engine is the
\* one reported.
C9_MaxCountThenPreferred ==
    (mpc = "done" /\ Len(Primaries) > 1)
    => /\ outcome.kind = "Best"
       /\ \E k \in DOMAIN Primaries :
            /\ Primaries[k].extractor = outcome.extractor
            /\ Primaries[k].file_node_count = MaxCount(Primaries)
       /\ (\E k \in DOMAIN Primaries :
            /\ Primaries[k].extractor = PreferredExtractor
            /\ Primaries[k].file_node_count = MaxCount(Primaries))
          => outcome.extractor = PreferredExtractor

\* C9 witness: two primary results with the same node count, the preferred
\* engine's appended last, and the preferred engine won.
C9_Witness ==
    /\ mpc = "done"
    /\ Len(Primaries) = 2
    /\ Primaries[1].extractor # PreferredExtractor
    /\ Primaries[2].extractor = PreferredExtractor
    /\ Primaries[1].file_node_count = Primaries[2].file_node_count
    /\ outcome.extractor = PreferredExtractor

\* C10: a job's archive-building or hashing failure does not abort the
\* orchestrator: a run with a valid engine list in which a job panicked still
\* ends with selection having run.
C10_ArchiveFailureContained ==
    (Ended /\ scopeErr = "" /\ \E j \in JobIds : jobs[j].pc = "panic")
    => /\ mpc = "done"
       /\ outcome.kind \in {"None", "Only", "Best"}

\* C11: when the run has returned, its exit status is success exactly when an
\* archive written by this run is at the canonical output path: a run that
\* returned an error or None left none there, a run that returned a selected
\* engine left one.
C11_ExitStatusIffCanonical ==
    (mpc \in {"done", "error"})
    => ((ExitStatus = 0)
          <=> files[SelectedOutputPath].kind \in {"partial", "full", "mixed"})

\* The output directory holds something of an earlier run and no job of this
\* run has been started.
PreExisting ==
    /\ files[SelectedOutputPath] = OldFile \/ extractDir
    /\ nextSpawn = 1
    /\ \A j \in JobIds : jobs[j].pc = "idle"

\* C12 as stated: once the checks are over, a run without --force whose
\* output directory holds an earlier archive or scratch tree has failed with
\* OutputExists.
C12_AsStated ==
    (mpc # "start" /\ ~args.force /\ PreExisting)
    => (mpc = "error" /\ outcome.error = "OutputExists")

\* C12 (amended): given a firmware path that is an existing regular file, the
\* checks of a run whose output directory holds an earlier archive or scratch
\* tree end, without --force, in OutputExists with the archive, the scratch
\* tree and the jobs untouched, and with --force in both being removed while
\* every job is still unstarted; no job ever runs after OutputExists.
C12_OutputCollision ==
    /\ [](outcome.error = "OutputExists" => \A j \in JobIds : jobs[j].pc = "idle")
    /\ [][(mpc = "start" /\ args.firmware = "file"
             /\ (files[SelectedOutputPath] # NoFile \/ extractDir))
          => IF ~args.force
             THEN /\ mpc' = "error"
                  /\ outcome'.error = "OutputExists"
                  /\ UNCHANGED <<files, extractDir, jobs>>
             ELSE /\ mpc' = "spawn"
                  /\ files'[SelectedOutputPath] = NoFile
                  /\ ~extractDir'
                  /\ \A j \in JobIds : jobs'[j].pc = "idle"]_vars

\* C12 witness: the run failed with OutputExists and the earlier archive and
\* scratch tree are both still there.
C12_Witness ==
    /\ mpc = "error"
    /\ outcome.error = "OutputExists"
    /\ ~args.force
    /\ files[SelectedOutputPath] = OldFile
    /\ extractDir

\* Every primary result carries the same content hash.
HashesAgree(rs) ==
    \A k, l \in DOMAIN rs : rs[k].archive_hash = rs[l].archive_hash

\* C13: the outcome of a run that reached selection is one of None, Only,
\* Best and Identical: None without a primary result, Only with exactly one,
\* and with two or more Identical when their content hashes are all the same
\* and Best otherwise.
C13_OutcomeKinds ==
    (mpc = "done")
    => /\ outcome.kind \in {"None", "Only", "Best", "Identical"}
       /\ outcome.kind = (CASE Len(Primaries) = 0 -> "None"
                            [] Len(Primaries) = 1 -> "Only"
                            [] Len(Primaries) > 1 /\ HashesAgree(Primaries) -> "Identical"
                            [] OTHER -> "Best")

\* a comes before b in lexicographic order: b continues a, or the first byte
\* in which they differ is smaller in a.
LexBefore(a, b) ==
    \E k \in 1 .. Len(b) :
        /\ \A m \in 1 .. (k - 1) : m <= Len(a) /\ a[m] = b[m]
        /\ (k > Len(a) \/ (k <= Len(a) /\ a[k] < b[k]))

C15_SourceExistsAtCopy ==
    (mpc = "copy" /\ args.copy_rootfs) => SourcePath(results) \in dirs

\* C16: the copy step changes neither the outcome nor the archive files, and
\* a run whose copy failed ends with the Only or Best of the first-ranked
\* primary result, a file at the canonical path and a success exit status.
C16_CopyFailureKeepsOutcome ==
    /\ []((mpc = "done" /\ rootfsCopy.status = "failed")
            => /\ outcome = [kind |-> IF Len(Primaries) = 1 THEN "Only" ELSE "Best",
                              extractor |-> Ranked(results)[1].extractor,
                              error |-> ""]
               /\ files[SelectedOutputPath] # NoFile
               /\ ExitStatus = 0)
    /\ [][mpc = "copy" => (outcome' = outcome /\ files' = files /\ mpc' = "done")]_vars

\* C16 witness: the scratch tree was kept, two engines had a primary result,
\* the copy failed and the run ended with Best.
C16_Witness ==
    /\ mpc = "done"
    /\ ~args.no_scratch
    /\ rootfsCopy.status = "failed"
    /\ Len(Primaries) = 2
    /\ outcome.kind = "Best"
    /\ files[SelectedOutputPath] # NoFile

\* C17: when main is at the device-log write, at selection and the rename, at
\* the rootfs copy or past them, every job has returned, with success or with
\* an error; and once main is past the join no job takes a step and nothing
\* is appended to the result set.
C17_PostProcessingAfterJoin ==
    /\ [](mpc \in {"log", "select", "copy", "done"}
            => \A j \in JobIds : jobs[j].pc \in {"ok", "err"})
    /\ [][(jobs' # jobs \/ results' # results) => mpc \in {"spawn", "join"}]_vars

\* C17 witness: the copy has been made after one job failed and the other
\* returned with its primary result.
C17_Witness ==
    /\ mpc = "done"
    /\ rootfsCopy.status = "copied"
    /\ jobs[1].pc = "err"
    /\ jobs[2].pc = "ok"
    /\ Len(results) = 1

\* The orders in which the results rs could have been appended.
AppendOrders(rs) ==
    {[k \in DOMAIN rs |-> rs[f[k]]] :
        f \in {g \in [DOMAIN rs -> DOMAIN rs] : \A a, b \in DOMAIN rs : g[a] = g[b] => a = b}}

\* C18: the engine a run reports is the one selection picks from the same
\* results in any other order of appending.
C18_OrderIndependent ==
    (mpc = "done" /\ outcome.kind \in {"Only", "Best"})
    => \A other \in AppendOrders(results) :
         Ranked(other)[1].extractor = outcome.extractor

\* The results job j appended, in the order of appending.
JobResults(j) == SelectSeq(results, LAMBDA r : JobOf(r) = j)

Min(a, b) == IF a <= b THEN a ELSE b

\* C19 as stated: a job that has ended after its identifier returned n >= 1
\* candidates has appended min(n, primary_limit) results and ended with
\* success.
C19_AsStated ==
    \A j \in JobIds :
        (jobs[j].n >= 1 /\ jobs[j].pc \in {"ok", "err", "panic"})
        => /\ Len(JobResults(j)) = Min(jobs[j].n, args.primary_limit)
           /\ jobs[j].pc = "ok"

\* C19 (amended): a job whose identifier returned n >= 1 candidates has, at
\* every moment, appended one result per candidate it is done with, with
\* indices 0, 1, ... in candidate order, whatever the other jobs appended in
\* between; it never ends with an error; and if no archive building or
\* hashing of its own failed it ends with success having appended exactly
\* min(n, primary_limit) results, the candidates beyond the cap skipped.
C19_CapBoundsResults ==
    \A j \in JobIds :
        jobs[j].n >= 1
        => /\ jobs[j].pc # "err"
           /\ jobs[j].pc = "ok" => jobs[j].i = Min(jobs[j].n, args.primary_limit)
           /\ LET mine == JobResults(j) IN
              /\ Len(mine) = jobs[j].i
              /\ \A k \in DOMAIN mine : mine[k].index = k - 1

\* C19 witness: both jobs found more candidates than the cap, their appends
\* interleaved, and both ended with success.
C19_Witness ==
    /\ args.primary_limit = 1
    /\ \A j \in JobIds : jobs[j].pc = "ok" /\ jobs[j].n > args.primary_limit
    /\ Len(results) = 2
    /\ JobOf(results[1]) = 2

\* The results of candidate index 0 among rs.
IndexZero(rs) == SelectSeq(rs, LAMBDA r : r.index = 0)

\* C20: the file at the canonical path is never the archive of a candidate
\* of index above 0; the archive of every such result stays at its own path;
\* and the outcome is Only or Best by the number of index-0 results, for an
\* engine whose index-0 result has the highest node count among the index-0
\* results, whatever the node counts of the other results.
C20_SecondaryNeverCanonical ==
    /\ files[SelectedOutputPath].kind \in {"partial", "full"}
         => files[SelectedOutputPath].index = 0
    /\ \A k \in DOMAIN results :
         results[k].index > 0
         => /\ results[k].path # SelectedOutputPath
            /\ files[results[k].path].kind \in {"partial", "full", "mixed"}
            /\ files[results[k].path].kind \in {"partial", "full"}
                 => files[results[k].path].index = results[k].index
    /\ (mpc \in {"copy", "done"} /\ outcome.kind # "None")
       => LET zero == IndexZero(results) IN
          /\ outcome.kind = IF Len(zero) = 1 THEN "Only" ELSE "Best"
          /\ \E k \in DOMAIN zero :
               /\ zero[k].extractor = outcome.extractor
               /\ zero[k].file_node_count = MaxCount(zero)

\* C20 witness: a second candidate's result has a higher node count than
\* every primary result, and the run ended with the preferred engine chosen
\* among the primary results.
C20_Witness ==
    /\ mpc = "done"
    /\ outcome = [kind |-> "Best", extractor |-> PreferredExtractor, error |-> ""]
    /\ \E k \in DOMAIN results :
         /\ results[k].index = 1
         /\ results[k].extractor # PreferredExtractor
         /\ results[k].file_node_count > MaxCount(IndexZero(results))

\* C21: once a job has returned, with success or with ExtractFail or
\* FailToFind, then with --no-scratch none of the directories it created for
\* its extraction exists any more, and without --no-scratch the directory it
\* extracted into still exists.
C21_ScratchReleased ==
    \A j \in JobIds :
        (jobs[j].pc \in {"ok", "err"} /\ jobs[j].err # "TempDirFail")
        => IF args.no_scratch
           THEN ExtractDirOf(j) \notin dirs /\ TempDirOf(j) \notin dirs
           ELSE ActualExtractDir(j) \in dirs

\* Job j has been given its extraction directory and has not ended.
UsesDirectory(j) == jobs[j].pc \in {"identify", "tar", "write", "hash", "push"}

\* C22: two different jobs that are running at the same time work in
\* different extraction directories, for every engine list and with and
\* without --no-scratch.
C22_ScratchDirsDistinct ==
    \A j, k \in JobIds :
        (j # k /\ UsesDirectory(j) /\ UsesDirectory(k))
        => ActualExtractDir(j) # ActualExtractDir(k)

====
